---- MODULE Spec2Model ----
(***************************************************************************)
(* Model of the embedding-indexed document store of ai-search-tool:        *)
(* DocumentStoreV2Optimized (SQLite ledger + Chroma collection) and the    *)
(* FastAPI handlers of server.py that drive it, with the cluster cache.    *)
(*                                                                         *)
(* One action is one handler call, run to completion.  A handler's calls   *)
(* into the store are the Store* operators below: functions from a store   *)
(* value [ledger, collection, model] to the store value after the call     *)
(* and the call's outcome.  A `fault` input selects where, if anywhere, an *)
(* external step of the call (Chroma, the SQLite commit) raises.           *)
(***************************************************************************)
EXTENDS Integers, Sequences, FiniteSets, TLC

\* ------------------------------------------------------------------ bounds
MaxDocs == 2        \* entries either store holds when its methods are called directly
ServerMaxDocs == 3  \* entries either store holds under the server
MaxTicks == 1       \* the clock advances at most this many times
MaxK == 1           \* largest k offered to search

\* ------------------------------------------------------- program constants
CACHE_TTL_SECONDS == 3600       \* server.py:1414
SECONDS_PER_DAY == 86400        \* datetime.timedelta: .seconds is in 0..86399
KMEANS_RANDOM_STATE == 42       \* server.py:1477, 1492: KMeans(..., random_state=42)

\* ------------------------------------------------------------------ inputs
NONE == "<None>"                          \* Python None for an optional string
AddTitles == {"T1"}                       \* titles given to new documents
Titles == {"T2"}                          \* titles a rename or an update sets
Texts == {"x", "y"}                       \* texts offered to the store's methods
ServerTexts == {"x"}                      \* texts posted to the handlers
Queries == {"x", "y"}
Faults == {"none", "chroma", "commit"}    \* which external step raises
ServerFaults == {"none"}                  \* the handlers run with every external step succeeding
PdfTexts == {"x"}                         \* texts extracted from uploaded PDFs
Entropies == {0, 1}                       \* states of numpy's process-wide generator
Deltas == {CACHE_TTL_SECONDS, SECONDS_PER_DAY}   \* clock advances, in seconds
NoTime == -1                              \* cluster_cache['last_updated'] is None
Threads == {1, 2}                         \* threads of the pool that runs the sync handlers
Idle == [op |-> "idle"]                   \* a pool thread serving no request

\* the ids in the registry databases.json: "default" and one made by create_database
DatabaseIds == {"default", "db_2"}

\* the server started on "default": the manager's current database, the database
\* config's paths point to, the database the global document_store is bound to, and
\* what the other databases hold on disk
InitialDatabases ==
    [current_database_id |-> "default",
     config_paths |-> "default",
     document_store |-> "default",
     storage |-> [d \in DatabaseIds \ {"default"} |-> [ledger |-> <<>>, collection |-> <<>>]]]

VARIABLES
    ledger,         \* SQLite `documents` table, rows in rowid order
    collection,     \* Chroma collection "documents", entries in insertion order
    model,          \* self.model is not None
    cluster_cache,  \* server.py cluster_cache dict
    now,            \* wall clock, seconds
    ticks,          \* number of clock advances so far
    ret,            \* the last handler call and what it returned
    raised,         \* history: some add/update/rename/delete/clear store call raised
    stale,          \* history: stored data changed since cluster_cache['clusters'] was computed
    inflight,       \* per pool thread: the request it is serving, where it stands, its locals
    databases,      \* the database registry, config's paths, the global store's binding,
                    \* and the stored contents of the databases the store is not bound to
    clustered       \* history: the database cluster_cache['clusters'] was computed from

vars == <<ledger, collection, model, cluster_cache, now, ticks, ret, raised, stale, inflight,
          databases, clustered>>

\* -------------------------------------------------------------- sequences
Min(a, b) == IF a <= b THEN a ELSE b

SeqRange(s) == {s[i] : i \in DOMAIN s}

RECURSIVE SelectSeqBy(_, _)
\* the entries of s whose id is not in `drop`, in order
SelectSeqBy(s, drop) ==
    IF s = <<>> THEN <<>>
    ELSE IF Head(s).id \in drop THEN SelectSeqBy(Tail(s), drop)
         ELSE <<Head(s)>> \o SelectSeqBy(Tail(s), drop)

RECURSIVE InsertSorted(_, _)
\* x inserted into the key-sorted sequence s after every entry whose key is <= x.key
InsertSorted(s, x) ==
    IF s = <<>> THEN <<x>>
    ELSE IF Head(s).key <= x.key THEN <<Head(s)>> \o InsertSorted(Tail(s), x)
         ELSE <<x>> \o s

RECURSIVE StableSort(_)
\* the [key, val] pairs of s sorted ascending by key, equal keys keeping their order
StableSort(s) ==
    IF s = <<>> THEN <<>>
    ELSE InsertSorted(StableSort(SubSeq(s, 1, Len(s) - 1)), s[Len(s)])

\* ---------------------------------------------------------- the two stores
Store == [ledger |-> ledger, collection |-> collection, model |-> model]

LedgerIds(S) == {S.ledger[i].id : i \in DOMAIN S.ledger}
CollectionIds(S) == {S.collection[i].id : i \in DOMAIN S.collection}

\* SentenceTransformer.encode: a fixed text -> vector table (one coordinate)
Encode(text) ==
    CASE text = "x" -> 0
      [] text = "y" -> 2
      [] text = "pdf_x" -> 1
      [] text = "pdf_y" -> 3
      [] OTHER -> 4

\* f"doc_{self.collection.count() + 1}_{int(datetime.now().timestamp())}"
NewDocId(S, t) == <<Len(S.collection) + 1, t>>

\* collection.add: an id the collection already holds is ignored
CollectionAdd(coll, id, embedding) ==
    IF id \in {coll[i].id : i \in DOMAIN coll} THEN coll
    ELSE Append(coll, [id |-> id, embedding |-> embedding])

\* collection.delete(ids=[doc_id])
CollectionDelete(coll, id) == SelectSeqBy(coll, {id})

\* collection.update(ids=[doc_id], embeddings=[e]): an absent id is ignored
CollectionUpdate(coll, id, embedding) ==
    [i \in DOMAIN coll |->
        IF coll[i].id = id THEN [coll[i] EXCEPT !.embedding = embedding] ELSE coll[i]]

\* DocumentStoreV2Optimized.add_document; Document(...) is taken to accept every
\* keyword the method passes to it
StoreAddDocument(S, title, content, t, fault) ==
    LET S1 == [S EXCEPT !.model = TRUE]
        doc_id == NewDocId(S, t)
        document == [id |-> doc_id, title |-> title, content |-> content, created_at |-> t]
        added == CollectionAdd(S.collection, doc_id, Encode(content))
    IN  IF fault = "chroma"
        THEN [st |-> S1, status |-> "raised", id |-> doc_id]
        ELSE IF fault = "commit" \/ doc_id \in LedgerIds(S)
        THEN [st |-> [S1 EXCEPT !.collection = added], status |-> "raised", id |-> doc_id]
        ELSE [st |-> [S1 EXCEPT !.ledger = Append(S.ledger, document), !.collection = added],
              status |-> "ok", id |-> doc_id]

\* DocumentStoreV2Optimized.delete_document
StoreDeleteDocument(S, doc_id, fault) ==
    IF doc_id \notin LedgerIds(S)
    THEN [st |-> S, status |-> "false"]
    ELSE IF fault = "chroma"
    THEN [st |-> S, status |-> "raised"]
    ELSE IF fault = "commit"
    THEN [st |-> [S EXCEPT !.collection = CollectionDelete(S.collection, doc_id)],
          status |-> "raised"]
    ELSE [st |-> [S EXCEPT !.ledger = SelectSeqBy(S.ledger, {doc_id}),
                           !.collection = CollectionDelete(S.collection, doc_id)],
          status |-> "ok"]

\* DocumentStoreV2Optimized.clear_all
StoreClearAll(S, fault) ==
    IF fault = "commit"
    THEN [st |-> S, status |-> "raised", count |-> Len(S.ledger)]
    ELSE IF fault = "chroma"
    THEN [st |-> [S EXCEPT !.ledger = <<>>], status |-> "raised", count |-> Len(S.ledger)]
    ELSE [st |-> [S EXCEPT !.ledger = <<>>, !.collection = <<>>],
          status |-> "ok", count |-> Len(S.ledger)]

\* DocumentStoreV2Optimized.rename_document: the ledger commits, then Chroma's
\* metadata is updated (no embedding changes)
StoreRenameDocument(S, doc_id, new_title, fault) ==
    IF doc_id \notin LedgerIds(S)
    THEN [st |-> S, status |-> "false"]
    ELSE IF fault = "commit"
    THEN [st |-> S, status |-> "raised"]
    ELSE LET renamed == [i \in DOMAIN S.ledger |->
                            IF S.ledger[i].id = doc_id
                            THEN [S.ledger[i] EXCEPT !.title = new_title]
                            ELSE S.ledger[i]]
         IN  [st |-> [S EXCEPT !.ledger = renamed],
              status |-> IF fault = "chroma" THEN "raised" ELSE "ok"]

\* DocumentStoreV2Optimized.update_document: title and content are None (NONE) or a
\* new value; the embedding is regenerated only `if content is not None and self.model`
StoreUpdateDocument(S, doc_id, title, content, fault) ==
    IF doc_id \notin LedgerIds(S)
    THEN [st |-> S, status |-> "false"]
    ELSE IF fault = "commit"
    THEN [st |-> S, status |-> "raised"]
    ELSE LET updated == [i \in DOMAIN S.ledger |->
                            IF S.ledger[i].id = doc_id
                            THEN [S.ledger[i] EXCEPT
                                    !.title = IF title # NONE THEN title ELSE @,
                                    !.content = IF content # NONE THEN content ELSE @]
                            ELSE S.ledger[i]]
             S1 == [S EXCEPT !.ledger = updated]
         IN  IF fault = "chroma"
             THEN [st |-> S1, status |-> "raised"]
             ELSE IF content # NONE /\ S.model
             THEN [st |-> [S1 EXCEPT !.collection =
                                CollectionUpdate(S.collection, doc_id, Encode(content))],
                   status |-> "ok"]
             ELSE [st |-> S1, status |-> "ok"]

\* the sort with rows of equal created_at coming out in the reverse of scan order
OrderByCreatedAt_TiesReversed(rows) ==
    LET n == Len(rows)
        keyed == [i \in DOMAIN rows |->
                     [key |-> rows[n + 1 - i].created_at, val |-> rows[n + 1 - i]]]
        sorted == StableSort(keyed)
    IN  [i \in DOMAIN sorted |-> sorted[i].val]

\* order_by(Document.created_at.desc()): the newest row first
OrderByCreatedAt_Descending(rows) ==
    LET keyed == [i \in DOMAIN rows |-> [key |-> 0 - rows[i].created_at, val |-> rows[i]]]
        sorted == StableSort(keyed)
    IN  [i \in DOMAIN sorted |-> sorted[i].val]

\* session.query(Document).order_by(Document.created_at).all(): SQLite sorts the
\* rowid-ordered scan by created_at, rows of equal created_at staying in scan order
OrderByCreatedAt(rows) ==
    LET keyed == [i \in DOMAIN rows |-> [key |-> rows[i].created_at, val |-> rows[i]]]
        sorted == StableSort(keyed)
    IN  [i \in DOMAIN sorted |-> sorted[i].val]

\* the mapping built as {doc.id: idx ...}: positions counted from 0
DocIdToIndex_ZeroBased(all_docs, doc_id) ==
    LET hits == {i \in DOMAIN all_docs : all_docs[i].id = doc_id}
    IN  IF hits = {} THEN 0 ELSE (CHOOSE i \in hits : \A j \in hits : j <= i) - 1

\* {doc.id: idx + 1 for idx, doc in enumerate(all_docs)} followed by .get(doc_id, 0)
DocIdToIndex(all_docs, doc_id) ==
    LET hits == {i \in DOMAIN all_docs : all_docs[i].id = doc_id}
    IN  IF hits = {} THEN 0 ELSE CHOOSE i \in hits : \A j \in hits : j <= i

\* the guard written as index <= len(documents), the lower bound forgotten
IndexInRange_NoLowerBound(index, n) == index <= n

\* the guard of get_document_by_index: 1 <= index <= len(documents)
IndexInRange(index, n) == 1 <= index /\ index <= n

\* Python's documents[i]: a negative i counts from the end, out of range raises
PyGetItem(documents, i) ==
    LET j == IF i >= 0 THEN i + 1 ELSE Len(documents) + i + 1
    IN  IF j \in DOMAIN documents
        THEN [status |-> "ok", doc |-> <<documents[j]>>]
        ELSE [status |-> "raised", doc |-> <<>>]

\* DocumentStoreV2Optimized.get_document_by_index; doc is <<>> for None
StoreGetDocumentByIndex(S, index) ==
    LET documents == OrderByCreatedAt(S.ledger)
    IN  IF IndexInRange(index, Len(documents))
        THEN PyGetItem(documents, index - 1)
        ELSE [status |-> "ok", doc |-> <<>>]

\* cosine distance of a stored vector to the query vector, on the model's scale
Distance(q, e) == IF q >= e THEN q - e ELSE e - q

\* n_results=self.collection.count(): k ignored
NResults_IgnoresK(k, count) == count

\* n_results=min(k, self.collection.count())
NResults(k, count) == Min(k, count)

\* collection.query: n_results <= 0 raises; else the n nearest entries, nearest first
CollectionQuery(coll, query_embedding, n_results) ==
    IF n_results <= 0
    THEN [status |-> "raised", hits |-> <<>>]
    ELSE LET keyed == [i \in DOMAIN coll |->
                          [key |-> Distance(query_embedding, coll[i].embedding),
                           val |-> coll[i].id]]
             sorted == StableSort(keyed)
         IN  [status |-> "ok", hits |-> SubSeq(sorted, 1, Min(n_results, Len(sorted)))]

RECURSIVE ResolveHits_Prepending(_, _, _)
\* the loop of search with documents.insert(0, result) for documents.append(result)
ResolveHits_Prepending(hits, rows, all_docs) ==
    IF hits = <<>> THEN <<>>
    ELSE LET h == Head(hits)
             found == {i \in DOMAIN rows : rows[i].id = h.val}
         IN  ResolveHits_Prepending(Tail(hits), rows, all_docs)
             \o (IF found = {} THEN <<>>
                 ELSE <<[id |-> h.val,
                         similarity_score |-> 1 - h.key,
                         index |-> DocIdToIndex(all_docs, h.val)]>>)

RECURSIVE ResolveHits(_, _, _)
\* the loop of search over results['ids'][0]: a hit the ledger does not hold is skipped
ResolveHits(hits, rows, all_docs) ==
    IF hits = <<>> THEN <<>>
    ELSE LET h == Head(hits)
             found == {i \in DOMAIN rows : rows[i].id = h.val}
         IN  (IF found = {} THEN <<>>
              ELSE <<[id |-> h.val,
                      similarity_score |-> 1 - h.key,
                      index |-> DocIdToIndex(all_docs, h.val)]>>)
             \o ResolveHits(Tail(hits), rows, all_docs)

\* DocumentStoreV2Optimized.search
StoreSearch(S, query, k) ==
    IF Len(S.collection) = 0
    THEN [st |-> S, status |-> "ok", results |-> <<>>]
    ELSE LET S1 == [S EXCEPT !.model = TRUE]
             found == CollectionQuery(S.collection, Encode(query),
                                      NResults(k, Len(S.collection)))
         IN  IF found.status = "raised"
             THEN [st |-> S1, status |-> "raised", results |-> <<>>]
             ELSE [st |-> S1, status |-> "ok",
                   results |-> ResolveHits(found.hits, S.ledger, OrderByCreatedAt(S.ledger))]

\* ------------------------------------------------------------- clustering
\* ClusterRequest: num_clusters is <<>> for None or <<n>>
DefaultClusterRequest == [num_clusters |-> <<>>, min_clusters |-> 2, max_clusters |-> 10]

ClusterRequests ==
    {DefaultClusterRequest}
    \cup {[DefaultClusterRequest EXCEPT !.num_clusters = <<n>>] : n \in 1..2}

\* ---------------------------------------------------------- cluster names
\* tag.strip().lower() of one comma-separated piece of a tags string
StripLower(piece) ==
    CASE piece = " AI" -> "ai"
      [] piece = " " -> ""
      [] OTHER -> piece

\* tag.title()
TitleCase(tag) ==
    CASE tag = "ai" -> "Ai"
      [] tag = "ml" -> "Ml"
      [] OTHER -> tag

\* doc.get('tags', '').split(','): the pieces of the tags string, <<>> when the
\* document has no tags (None or '')
DocTags(doc) == IF "tags" \in DOMAIN doc THEN doc.tags ELSE <<>>

\* [tag.strip().lower() for tag in tags_str.split(',') if tag.strip()]
CleanTags(pieces) ==
    LET stripped == [i \in DOMAIN pieces |-> StripLower(pieces[i])]
    IN  SelectSeq(stripped, LAMBDA t : t # "")

RECURSIVE AllTags(_)
\* all_tags after the loop over the cluster's documents
AllTags(documents) ==
    IF documents = <<>> THEN <<>>
    ELSE CleanTags(DocTags(Head(documents))) \o AllTags(Tail(documents))

RECURSIVE FirstAppearances(_)
\* the distinct entries of s in the order in which they first appear
FirstAppearances(s) ==
    IF s = <<>> THEN <<>>
    ELSE LET front == FirstAppearances(SubSeq(s, 1, Len(s) - 1))
             last == s[Len(s)]
         IN  IF last \in SeqRange(front) THEN front ELSE Append(front, last)

\* Counter(all_tags)[tag]
TagCount(all_tags, tag) == Cardinality({i \in DOMAIN all_tags : all_tags[i] = tag})

\* Counter(all_tags).most_common(): by count, largest first, equal counts in the
\* order of first insertion
MostCommon(all_tags) ==
    LET tags == FirstAppearances(all_tags)
        keyed == [i \in DOMAIN tags |-> [key |-> 0 - TagCount(all_tags, tags[i]), val |-> tags[i]]]
        sorted == StableSort(keyed)
    IN  [i \in DOMAIN sorted |-> sorted[i].val]

\* generate_cluster_name_v4: a name is the sequence of the parts ' + ' would join
GenerateClusterNameV4(documents, representative_id) ==
    LET found == {i \in DOMAIN documents : documents[i].id = representative_id}
    IN  IF found = {} THEN <<"Unnamed Cluster">>
        ELSE <<documents[CHOOSE i \in found : \A j \in found : i <= j].title>>

\* generate_cluster_name_v5
GenerateClusterNameV5(documents, representative_id) ==
    LET all_tags == AllTags(documents)
        total_docs == Len(documents)
        common_tags == SelectSeq(MostCommon(all_tags),
                                 LAMBDA tag : 2 * TagCount(all_tags, tag) >= total_docs)
        selected_tags == SubSeq(common_tags, 1, Min(3, Len(common_tags)))
    IN  IF all_tags # <<>> /\ common_tags # <<>>
        THEN [i \in DOMAIN selected_tags |-> TitleCase(selected_tags[i])]
        ELSE GenerateClusterNameV4(documents, representative_id)

\* ------------------------------------------------------------------ KMeans
\* KMeans built without random_state: the process-wide generator seeds it
KMeansSeed_Unseeded(random_state, entropy) == entropy

\* the seed KMeans draws its initial centres from: random_state when it is given
\* (<<n>>), else (<<>>) the state of the process-wide generator
KMeansSeed(random_state, entropy) ==
    IF random_state = <<>> THEN entropy ELSE random_state[1]

\* the number of distinct labels KMeans(n_clusters=k).fit_predict gives: coincident
\* vectors share a label
KMeansLabelCount(k, coll) ==
    Min(k, Cardinality({coll[i].embedding : i \in DOMAIN coll}))

\* KMeans(n_clusters=k, random_state=...).fit_predict(embeddings): the label of every
\* entry.  Equal vectors share a label; the distinct vectors beyond the k-th join the
\* last group; the seed decides which way the groups are numbered.
KMeansLabels(coll, k, random_state, entropy) ==
    LET values == FirstAppearances([i \in DOMAIN coll |-> coll[i].embedding])
        groups == KMeansLabelCount(k, coll)
        rank(e) == Min(CHOOSE j \in DOMAIN values : values[j] = e, groups) - 1
    IN  [i \in DOMAIN coll |->
            IF KMeansSeed(random_state, entropy) % 2 = 0
            THEN rank(coll[i].embedding)
            ELSE groups - 1 - rank(coll[i].embedding)]

\* sklearn's silhouette_score raises ValueError unless 2 <= n_labels <= n_samples - 1
SilhouetteDefined(n_labels, n_samples) == 2 <= n_labels /\ n_labels <= n_samples - 1

\* range(request.min_clusters, min(request.max_clusters + 1, len(embeddings)))
CandidateKs(request, n) ==
    {k \in request.min_clusters .. (Min(request.max_clusters + 1, n) - 1) : TRUE}

\* KMeans(n_clusters=k) followed by silhouette_score completes without raising
ClusteringRuns(k, coll) ==
    /\ 1 <= k
    /\ k <= Len(coll)
    /\ SilhouetteDefined(KMeansLabelCount(k, coll), Len(coll))

\* best_k after the loop over the candidates: the first k whose silhouette score is
\* the largest (splitting coincident vectors apart scores highest), 2 when no k ran
BestK(request, coll) ==
    LET candidates == CandidateKs(request, Len(coll))
    IN  IF candidates = {} THEN 2
        ELSE CHOOSE k \in candidates :
                \A j \in candidates :
                    \/ KMeansLabelCount(j, coll) < KMeansLabelCount(k, coll)
                    \/ (KMeansLabelCount(j, coll) = KMeansLabelCount(k, coll) /\ k <= j)

\* np.where(labels == i)[0]: the positions carrying label i, ascending
ClusterIndices(labels, i) ==
    SelectSeq([j \in DOMAIN labels |-> j], LAMBDA j : labels[j] = i)

\* cluster_indices[np.argmin(distances)]: the first member nearest to the centre (the
\* mean of the members); distances are compared scaled by the member count
RepresentativeIdx(coll, cluster_indices) ==
    LET m == Len(cluster_indices)
        total == LET sum[j \in 0..m] ==
                         IF j = 0 THEN 0 ELSE sum[j - 1] + coll[cluster_indices[j]].embedding
                 IN  sum[m]
        dist(j) == Distance(m * coll[cluster_indices[j]].embedding, total)
    IN  cluster_indices[CHOOSE j \in 1..m :
                            \A h \in 1..m : dist(j) < dist(h) \/ (dist(j) = dist(h) /\ j <= h)]

RECURSIVE ClusterDocs(_, _, _)
\* cluster_docs: for every member, in order, the document of that id in `documents`;
\* a member that `documents` lacks is passed over
ClusterDocs(coll, cluster_indices, documents) ==
    IF cluster_indices = <<>> THEN <<>>
    ELSE LET doc_id == coll[Head(cluster_indices)].id
             infos == {i \in DOMAIN documents : documents[i].id = doc_id}
         IN  (IF infos = {} THEN <<>>
              ELSE <<documents[CHOOSE i \in infos : \A j \in infos : i <= j]>>)
             \o ClusterDocs(coll, Tail(cluster_indices), documents)

\* one entry of `clusters`
ClusterEntry(coll, documents, labels, i) ==
    LET cluster_indices == ClusterIndices(labels, i)
        cluster_docs == ClusterDocs(coll, cluster_indices, documents)
        representative_id == coll[RepresentativeIdx(coll, cluster_indices)].id
    IN  [cluster_id |-> i,
         cluster_name |-> GenerateClusterNameV5(cluster_docs, representative_id),
         size |-> Len(cluster_docs),
         documents |-> [j \in DOMAIN cluster_docs |-> cluster_docs[j].id],
         representative_document_id |-> representative_id]

\* num_clusters as the final KMeans is given it: best_k of the search when the
\* request names no count, else min(request.num_clusters, len(embeddings) - 1)
NumClusters(request, coll) ==
    IF request.num_clusters = <<>> THEN BestK(request, coll)
    ELSE Min(request.num_clusters[1], Len(coll) - 1)

\* compute_clusters: "ok" with the ClusterResponse, or "raised" (every failure of it
\* is a ValueError)
ComputeClusters(S, request, entropy) ==
    LET documents == S.ledger
        coll == S.collection
        n == Len(coll)
        search_ok == \A k \in CandidateKs(request, n) : ClusteringRuns(k, coll)
        num_clusters == NumClusters(request, coll)
        labels == KMeansLabels(coll, num_clusters, <<KMEANS_RANDOM_STATE>>, entropy)
        final_ok ==
            /\ request.num_clusters = <<>> => search_ok
            /\ ClusteringRuns(num_clusters, coll)
            /\ \A i \in 0..(num_clusters - 1) : ClusterIndices(labels, i) # <<>>
    IN  IF Len(documents) < 2 \/ n < 2 \/ ~final_ok
        THEN [status |-> "raised", response |-> <<>>]
        ELSE [status |-> "ok",
              response |-> <<[clusters |-> [c \in 1..num_clusters |->
                                               ClusterEntry(coll, documents, labels, c - 1)],
                              num_clusters |-> num_clusters,
                              total_documents |-> Len(documents)]>>]

\* ---------------------------------------------------------- cluster cache
\* invalidate_cluster_cache
InvalidatedClusterCache == [clusters |-> <<>>, last_updated |-> NoTime, document_count |-> 0]

\* (datetime.now() - last_updated).seconds: timedelta normalises to days and seconds
TimedeltaSeconds(later, earlier) == (later - earlier) % SECONDS_PER_DAY

\* the validity test of get_cached_clusters
CacheIsValid(cache, current_doc_count, t) ==
    /\ cache.clusters # <<>>
    /\ cache.document_count = current_doc_count
    /\ cache.last_updated # NoTime
    /\ TimedeltaSeconds(t, cache.last_updated) < CACHE_TTL_SECONDS

\* of a ClusterResponse held in the cache, total_documents is kept
CachedResponse(computed) ==
    IF computed.status = "ok"
    THEN [computed EXCEPT !.response = <<[total_documents |-> @[1].total_documents]>>]
    ELSE computed

\* get_cached_clusters: the value returned (<<>> for None), where it came from, and
\* the cache afterwards
GetCachedClusters(S, cache, t) ==
    LET current_doc_count == Len(S.ledger)
        computed == CachedResponse(ComputeClusters(S, DefaultClusterRequest, 0))
    IN  IF current_doc_count < 2
        THEN [clusters |-> <<>>, from |-> "too_few", cache |-> cache]
        ELSE IF CacheIsValid(cache, current_doc_count, t)
        THEN [clusters |-> cache.clusters, from |-> "cache", cache |-> cache]
        ELSE IF computed.status = "ok"
        THEN [clusters |-> computed.response, from |-> "computed",
              cache |-> [clusters |-> computed.response, last_updated |-> t,
                         document_count |-> current_doc_count]]
        ELSE [clusters |-> <<>>, from |-> "failed", cache |-> cache]

\* ------------------------------------------------------------ behaviours
\* ids a caller may name: every id either store holds, and one that neither holds
AbsentId == <<0, 0>>
KnownIds == LedgerIds(Store) \cup CollectionIds(Store) \cup {AbsentId}

HasRoom(n, max) == Len(ledger) + n <= max /\ Len(collection) + n <= max

\* an external failure is injected at most once in a behaviour
MayFail(fault) == fault = "none" \/ ~raised

\* The state after a call: the store after its store calls, the cache after it, what
\* it returned, whether a mutating store call raised, whether it stored fresh clusters.
Outcome(S2, cache2, result, store_raised, recomputed) ==
    /\ ledger' = S2.ledger
    /\ collection' = S2.collection
    /\ model' = S2.model
    /\ cluster_cache' = cache2
    /\ ret' = result
    /\ raised' = (raised \/ store_raised)
    /\ stale' = IF cache2.clusters = <<>> \/ recomputed THEN FALSE
                ELSE IF S2.ledger # ledger \/ S2.collection # collection THEN TRUE
                ELSE stale
    /\ clustered' = IF cache2.clusters = <<>> THEN NONE
                    ELSE IF recomputed THEN databases.document_store
                    ELSE clustered

\* a call during which the clock is not seen to advance
Finish(S2, cache2, result, store_raised, recomputed) ==
    /\ Outcome(S2, cache2, result, store_raised, recomputed)
    /\ UNCHANGED <<now, ticks, databases, inflight>>

\* the clock advances by d seconds between two calls
Tick(d) ==
    /\ ticks < MaxTicks
    /\ now' = now + d
    /\ ticks' = ticks + 1
    /\ UNCHANGED <<ledger, collection, model, cluster_cache, ret, raised, stale, clustered,
                   inflight, databases>>

\* ---------------------------------------- calls on DocumentStoreV2Optimized
\* what a method call came to: status is "ok", "false" (the method returned False) or
\* "raised"; arg is the k or the index it was given (NONE for the other methods); out
\* is the list or the document it returned (<<>> for [] and for None)
Returned(op, status, arg, out) == [op |-> op, status |-> status, arg |-> arg, out |-> out]

\* datetime.now() in add_document reads the clock d seconds after its last reading
CallAddDocument ==
    /\ HasRoom(1, MaxDocs)
    /\ \E title \in AddTitles, content \in Texts, fault \in Faults, d \in 0..1 :
        /\ MayFail(fault)
        /\ d = 0 \/ ticks < MaxTicks
        /\ LET r == StoreAddDocument(Store, title, content, now + d, fault)
           IN  Outcome(r.st, cluster_cache, Returned("add_document", r.status, NONE, <<>>),
                       r.status = "raised", FALSE)
        /\ now' = now + d
        /\ ticks' = ticks + d
        /\ UNCHANGED <<inflight, databases>>

CallUpdateDocument ==
    \E doc_id \in KnownIds, content \in Texts \cup {NONE}, fault \in Faults :
        /\ MayFail(fault)
        /\ LET r == StoreUpdateDocument(Store, doc_id, NONE, content, fault)
           IN  Finish(r.st, cluster_cache, Returned("update_document", r.status, NONE, <<>>),
                      r.status = "raised", FALSE)

CallDeleteDocument ==
    \E doc_id \in KnownIds, fault \in Faults :
        /\ MayFail(fault)
        /\ LET r == StoreDeleteDocument(Store, doc_id, fault)
           IN  Finish(r.st, cluster_cache, Returned("delete_document", r.status, NONE, <<>>),
                      r.status = "raised", FALSE)

CallClearAll ==
    \E fault \in Faults :
        /\ MayFail(fault)
        /\ LET r == StoreClearAll(Store, fault)
           IN  Finish(r.st, cluster_cache, Returned("clear_all", r.status, NONE, <<>>),
                      r.status = "raised", FALSE)

CallSearch ==
    \E query \in Queries, k \in 0..MaxK :
        LET r == StoreSearch(Store, query, k)
        IN  Finish(r.st, cluster_cache, Returned("search", r.status, k, r.results),
                   FALSE, FALSE)

CallGetDocumentByIndex ==
    \E index \in 0..(MaxDocs + 1) :
        LET r == StoreGetDocumentByIndex(Store, index)
        IN  Finish(Store, cluster_cache,
                   Returned("get_document_by_index", r.status, index, r.doc),
                   FALSE, FALSE)

Init ==
    /\ ledger = <<>>
    /\ collection = <<>>
    /\ model \in BOOLEAN
    /\ cluster_cache = InvalidatedClusterCache
    /\ now = 0
    /\ ticks = 0
    /\ ret = Returned("__init__", "ok", NONE, <<>>)
    /\ raised = FALSE
    /\ stale = FALSE
    /\ inflight = [t \in Threads |-> Idle]
    /\ databases = InitialDatabases
    /\ clustered = NONE

Next ==
    \/ CallAddDocument
    \/ CallUpdateDocument
    \/ CallDeleteDocument
    \/ CallClearAll
    \/ CallSearch
    \/ CallGetDocumentByIndex

\* the store object driven through its methods, as cli_v2.py and the handlers do
Spec == Init /\ [][Next]_vars

\* ------------------------------------------------- properties of the store
\* C1: after any sequence of add_document, update_document, delete_document and
\* clear_all calls, once each call has ended, the ids of the Chroma collection are
\* the ids of the ledger.
C1_Lockstep == LedgerIds(Store) = CollectionIds(Store)

\* C2: when add_document, delete_document or clear_all raises, both stores hold the
\* id sets they held before the call (a change already made to one is rolled back).
C2_PartialWriteRolledBack ==
    [][(ret'.op \in {"add_document", "delete_document", "clear_all"}
        /\ ret'.status = "raised")
       => /\ {ledger'[i].id : i \in DOMAIN ledger'} = LedgerIds(Store)
          /\ {collection'[i].id : i \in DOMAIN collection'} = CollectionIds(Store)]_vars

\* C7: every result of search carries an index under which get_document_by_index
\* returns that same document, and the indices of the stored documents are exactly
\* 1..count.
C7_SearchIndexRoundTrip ==
    /\ (ret.op = "search" /\ ret.status = "ok") =>
          \A i \in DOMAIN ret.out :
              LET got == StoreGetDocumentByIndex(Store, ret.out[i].index)
              IN  /\ got.status = "ok"
                  /\ got.doc # <<>>
                  /\ got.doc[1].id = ret.out[i].id
    /\ {DocIdToIndex(OrderByCreatedAt(ledger), ledger[i].id) : i \in DOMAIN ledger}
         = 1..Len(ledger)

\* a search over two documents returned the one stored second, with index 2
C7_Witness ==
    /\ ret.op = "search" /\ ret.status = "ok"
    /\ Len(ledger) = 2
    /\ Len(ret.out) = 1
    /\ ret.out[1].index = 2

\* C8: get_document_by_index(n) with n < 1 or n > count returns None, never another
\* document, and changes nothing that is stored.
C8_OutOfRangeIsNone ==
    [][(ret'.op = "get_document_by_index"
        /\ (ret'.arg < 1 \/ ret'.arg > Len(ledger)))
       => /\ ret'.status = "ok"
          /\ ret'.out = <<>>
          /\ UNCHANGED <<ledger, collection, cluster_cache>>]_vars

\* index 0 was asked of a store holding two documents, and None came back
C8_Witness ==
    /\ ret.op = "get_document_by_index" /\ ret.arg = 0
    /\ Len(ledger) = 2
    /\ ret.out = <<>>

\* C9: search(q, k) with k >= 1 returns at most min(k, count) results and, on an
\* empty store, the empty list without raising.
C9_SearchAtMostK ==
    (ret.op = "search" /\ ret.arg >= 1) =>
        /\ ret.status = "ok"
        /\ Len(ret.out) <= Min(ret.arg, Len(ledger))

\* one result was asked of a store holding two documents, and one came back
C9_Witness ==
    /\ ret.op = "search" /\ ret.arg = 1
    /\ Len(ledger) = 2 /\ Len(collection) = 2
    /\ Len(ret.out) = 1

\* C10: search with k <= 0 is rejected in every store state; it never returns a list.
C10_NonPositiveKRejected ==
    (ret.op = "search" /\ ret.arg <= 0) => ret.status = "raised"

\* C11: the list search returns keeps the order in which the vector index returned
\* its hits (nearest first), and its similarity scores never increase from one
\* result to the next.
C11_SearchKeepsIndexOrder ==
    \A query \in Queries, k \in 1..Len(collection) :
        LET r == StoreSearch(Store, query, k)
            hits == CollectionQuery(collection, Encode(query), NResults(k, Len(collection))).hits
            kept == SelectSeq(hits, LAMBDA h : h.val \in LedgerIds(Store))
        IN  /\ r.status = "ok"
            /\ [i \in DOMAIN r.results |-> r.results[i].id] = [i \in DOMAIN kept |-> kept[i].val]
            /\ \A i \in 1..(Len(r.results) - 1) :
                   r.results[i].similarity_score >= r.results[i + 1].similarity_score

\* a search ran on a store whose second document is strictly nearer to a query than
\* its first
C11_Witness ==
    /\ ret.op = "search" /\ ret.status = "ok"
    /\ Len(ledger) = 2 /\ Len(collection) = 2
    /\ LedgerIds(Store) = CollectionIds(Store)
    /\ \E query \in Queries :
          Distance(Encode(query), collection[2].embedding)
            < Distance(Encode(query), collection[1].embedding)

\* --------------------------------------------------- handlers of server.py
\* what a handler returned: status is "ok" or the kind of HTTP error ("400" for
\* get_document_clusters' ValueError, which also records its request and, in out, the
\* ClusterResponse); wrote says
\* a store change succeeded; invalidated says invalidate_cluster_cache was called;
\* from says where get_cached_clusters took its value
Response(op, status, wrote, invalidated, from) ==
    [op |-> op, status |-> status, wrote |-> wrote, invalidated |-> invalidated,
     from |-> from]

\* POST /documents
AddDocument ==
    /\ HasRoom(1, ServerMaxDocs)
    /\ \E title \in AddTitles, content \in ServerTexts, fault \in ServerFaults :
        LET r == StoreAddDocument(Store, title, content, now, fault)
        IN  IF r.status = "ok"
            THEN Finish(r.st, InvalidatedClusterCache,
                        Response("POST /documents", "ok", TRUE, TRUE, "not_called"),
                        FALSE, FALSE)
            ELSE Finish(r.st, cluster_cache,
                        Response("POST /documents", "error", FALSE, FALSE, "not_called"),
                        TRUE, FALSE)

RECURSIVE StoreAddAll(_, _, _, _)
\* the loop of import_documents: the first add that raises ends it; `fault` strikes
\* the last document of the list
StoreAddAll(S, docs, t, fault) ==
    IF docs = <<>> THEN [st |-> S, status |-> "ok"]
    ELSE LET r == StoreAddDocument(S, Head(docs)[1], Head(docs)[2], t,
                                   IF Len(docs) = 1 THEN fault ELSE "none")
         IN  IF r.status = "ok" THEN StoreAddAll(r.st, Tail(docs), t, fault)
             ELSE [st |-> r.st, status |-> "raised"]

\* POST /documents/import
ImportDocuments ==
    \E n \in 0..ServerMaxDocs :
        /\ HasRoom(n, ServerMaxDocs)
        /\ \E docs \in [1..n -> AddTitles \X ServerTexts], fault \in ServerFaults :
            LET r == StoreAddAll(Store, docs, now, fault)
            IN  Finish(r.st, cluster_cache,
                       Response("POST /documents/import",
                                IF r.status = "ok" THEN "ok" ELSE "error",
                                r.st.ledger # ledger, FALSE, "not_called"),
                       r.status = "raised", FALSE)

\* POST /claude, with the Anthropic client configured
AskClaude ==
    /\ HasRoom(1, ServerMaxDocs)
    /\ \E title \in AddTitles, content \in ServerTexts, fault \in ServerFaults :
        LET r == StoreAddDocument(Store, title, content, now, fault)
        IN  Finish(r.st, cluster_cache,
                   Response("POST /claude", IF r.status = "ok" THEN "ok" ELSE "error",
                            r.status = "ok", FALSE, "not_called"),
                   r.status = "raised", FALSE)

\* f"[PDF_FILE:{safe_filename}]\n[PDF_META:{...}]\n\n{text_content}"
PdfContent(text) == IF text = "x" THEN "pdf_x" ELSE "pdf_y"

\* the shared tail of upload_pdf and import_pdf_from_url: add_document, then
\* update_document(doc_id, content=updated_content)
StorePdf(S, title, text, t, fault, fault2) ==
    LET r == StoreAddDocument(S, title, text, t, fault)
        u == StoreUpdateDocument(r.st, r.id, NONE, PdfContent(text), fault2)
    IN  IF r.status # "ok" THEN [st |-> r.st, status |-> "raised"]
        ELSE [st |-> u.st, status |-> IF u.status = "raised" THEN "raised" ELSE "ok"]

\* POST /upload-pdf
UploadPdf ==
    /\ HasRoom(1, ServerMaxDocs)
    /\ \E title \in AddTitles, text \in PdfTexts, fault \in ServerFaults, fault2 \in ServerFaults :
        LET r == StorePdf(Store, title, text, now, fault, fault2)
        IN  Finish(r.st, cluster_cache,
                   Response("POST /upload-pdf", IF r.status = "ok" THEN "ok" ELSE "error",
                            r.st.ledger # ledger, FALSE, "not_called"),
                   r.status = "raised", FALSE)

\* POST /import-pdf-url
ImportPdfFromUrl ==
    /\ HasRoom(1, ServerMaxDocs)
    /\ \E title \in AddTitles, text \in PdfTexts, fault \in ServerFaults, fault2 \in ServerFaults :
        LET r == StorePdf(Store, title, text, now, fault, fault2)
        IN  Finish(r.st, cluster_cache,
                   Response("POST /import-pdf-url",
                            IF r.status = "ok" THEN "ok" ELSE "error",
                            r.st.ledger # ledger, FALSE, "not_called"),
                   r.status = "raised", FALSE)

\* PUT /documents/{doc_id}
UpdateDocument ==
    \E doc_id \in KnownIds, title \in Titles \cup {NONE}, content \in ServerTexts \cup {NONE},
       fault \in ServerFaults :
        LET r == StoreUpdateDocument(Store, doc_id, title, content, fault)
        IN  IF r.status = "ok"
            THEN Finish(r.st, InvalidatedClusterCache,
                        Response("PUT /documents/{doc_id}", "ok", TRUE, TRUE, "not_called"),
                        FALSE, FALSE)
            ELSE Finish(r.st, cluster_cache,
                        Response("PUT /documents/{doc_id}",
                                 IF r.status = "false" THEN "not_found" ELSE "error",
                                 FALSE, FALSE, "not_called"),
                        r.status = "raised", FALSE)

\* PUT /documents/{doc_id}/rename
RenameDocument ==
    \E doc_id \in KnownIds, new_title \in Titles, fault \in ServerFaults :
        LET r == StoreRenameDocument(Store, doc_id, new_title, fault)
        IN  Finish(r.st, cluster_cache,
                   Response("PUT /documents/{doc_id}/rename",
                            CASE r.status = "ok" -> "ok"
                              [] r.status = "false" -> "not_found"
                              [] OTHER -> "error",
                            r.status = "ok", FALSE, "not_called"),
                   r.status = "raised", FALSE)

\* DELETE /documents/{doc_id}
DeleteDocument ==
    \E doc_id \in KnownIds, fault \in ServerFaults :
        LET r == StoreDeleteDocument(Store, doc_id, fault)
        IN  IF r.status = "ok"
            THEN Finish(r.st, InvalidatedClusterCache,
                        Response("DELETE /documents/{doc_id}", "ok", TRUE, TRUE, "not_called"),
                        FALSE, FALSE)
            ELSE Finish(r.st, cluster_cache,
                        Response("DELETE /documents/{doc_id}",
                                 IF r.status = "false" THEN "not_found" ELSE "error",
                                 FALSE, FALSE, "not_called"),
                        r.status = "raised", FALSE)

\* clear_all_documents, the handler of DELETE /documents/clear-all
ClearAllDocuments ==
    \E fault \in ServerFaults :
        LET r == StoreClearAll(Store, fault)
        IN  IF r.status = "ok"
            THEN Finish(r.st, InvalidatedClusterCache,
                        Response("DELETE /documents/clear-all", "ok", TRUE, TRUE, "not_called"),
                        FALSE, FALSE)
            ELSE Finish(r.st, cluster_cache,
                        Response("DELETE /documents/clear-all", "error", FALSE, FALSE, "not_called"),
                        TRUE, FALSE)

\* POST /search
SearchDocuments ==
    \E query \in ServerTexts, k \in {0, MaxK} :
        LET r == StoreSearch(Store, query, k)
            c == GetCachedClusters(r.st, cluster_cache, now)
        IN  IF r.status = "raised"
            THEN Finish(r.st, cluster_cache,
                        Response("POST /search", "error", FALSE, FALSE, "not_called"),
                        FALSE, FALSE)
            ELSE Finish(r.st, c.cache,
                        Response("POST /search", "ok", FALSE, FALSE, c.from),
                        FALSE, c.from = "computed")

\* GET /documents with a call of invalidate_cluster_cache pasted in from a write handler
ListDocuments_Invalidating ==
    LET c == GetCachedClusters(Store, cluster_cache, now)
    IN  Finish(Store, InvalidatedClusterCache,
               Response("GET /documents", "ok", FALSE, TRUE, c.from), FALSE, FALSE)

\* GET /documents
ListDocuments ==
    LET c == GetCachedClusters(Store, cluster_cache, now)
    IN  Finish(Store, c.cache, Response("GET /documents", "ok", FALSE, FALSE, c.from),
               FALSE, c.from = "computed")

\* GET /documents/by-index/{index}
GetDocumentByIndex ==
    \E index \in {0, Len(ledger), Len(ledger) + 1} :
        LET r == StoreGetDocumentByIndex(Store, index)
        IN  Finish(Store, cluster_cache,
                   Response("GET /documents/by-index/{index}",
                            CASE r.status = "raised" -> "error"
                              [] r.doc = <<>> -> "not_found"
                              [] OTHER -> "ok",
                            FALSE, FALSE, "not_called"),
                   FALSE, FALSE)

\* POST /clusters
GetDocumentClusters ==
    \E request \in ClusterRequests, entropy \in Entropies :
        LET r == ComputeClusters(Store, request, entropy)
        IN  Finish(Store, cluster_cache,
                   Response("POST /clusters", IF r.status = "ok" THEN "ok" ELSE "400",
                            FALSE, FALSE, "not_called")
                     @@ [request |-> request, out |-> r.response],
                   FALSE, FALSE)

\* document_store = DocumentStoreV2(load_model=True)
ServerInit == Init /\ model = TRUE

ServerNext ==
    \/ AddDocument
    \/ ImportDocuments
    \/ AskClaude
    \/ UploadPdf
    \/ ImportPdfFromUrl
    \/ UpdateDocument
    \/ RenameDocument
    \/ DeleteDocument
    \/ ClearAllDocuments
    \/ SearchDocuments
    \/ ListDocuments
    \/ GetDocumentByIndex
    \/ GetDocumentClusters

\* the server process: one handler call at a time
SpecServer == ServerInit /\ [][ServerNext]_vars

ClockNext ==
    \/ \E d \in Deltas : Tick(d)
    \/ ImportDocuments
    \/ UploadPdf
    \/ DeleteDocument
    \/ SearchDocuments
    \/ ListDocuments

\* the server process with the wall clock advancing between requests
SpecServerClock == ServerInit /\ [][ClockNext]_vars
\* ------------------------------------------------ properties of the server
\* the handlers that read the clusters through get_cached_clusters
CachedReaders == {"POST /search", "GET /documents"}

\* C3: after a handler changed the document set or a document's stored fields, the
\* next get_cached_clusters recomputes: it never returns clusters computed before
\* that change.
C3_NoStaleClusters ==
    (ret.op \in CachedReaders /\ ret.status = "ok" /\ ret.from = "cache") => ~stale

\* the endpoints that insert, update, delete or bulk-clear documents
WriteEndpoints ==
    {"POST /documents", "POST /documents/import", "POST /claude", "POST /upload-pdf",
     "POST /import-pdf-url", "PUT /documents/{doc_id}", "DELETE /documents/{doc_id}",
     "DELETE /documents/clear-all"}

\* C4: every write endpoint calls invalidate_cluster_cache after its store change
\* succeeded and before it returns.
C4_WritesInvalidate ==
    (ret.op \in WriteEndpoints /\ ret.wrote) => (ret.invalidated /\ cluster_cache.clusters = <<>>)

\* C5: get_cached_clusters returns the cached clusters only when an entry is stored,
\* its document count is the current one, and less than one hour has passed since
\* it was computed, however long ago that was.
C5_CacheHitWithinTTL ==
    (ret.op \in CachedReaders /\ ret.status = "ok" /\ ret.from = "cache") =>
        /\ cluster_cache.clusters # <<>>
        /\ cluster_cache.document_count = Len(ledger)
        /\ now - cluster_cache.last_updated < CACHE_TTL_SECONDS

\* a stored entry that is still valid: its count is the current one and it is less
\* than an hour old
StillValid ==
    /\ cluster_cache.clusters # <<>>
    /\ cluster_cache.document_count = Len(ledger)
    /\ now - cluster_cache.last_updated < CACHE_TTL_SECONDS

\* the read-only operations: search_documents, list_documents, POST /clusters
ReadOnlyOps == {"POST /search", "GET /documents", "POST /clusters"}

\* C6: search_documents, list_documents and POST /clusters leave a stored, still
\* valid cache entry as it is, and leave the ledger and the vector index as they are.
C6_ReadsKeepCacheAndStores ==
    [][ret'.op \in ReadOnlyOps
       => /\ UNCHANGED <<ledger, collection>>
          /\ StillValid => UNCHANGED cluster_cache]_vars

\* list_documents answered from a stored, still valid entry
C6_Witness ==
    /\ ret.op = "GET /documents" /\ ret.from = "cache"
    /\ StillValid
\* C12: compute_clusters with fewer than 2 documents fails with an input error (HTTP
\* 400) and no clusters; with exactly 2 documents it succeeds with num_clusters 1 or 2.
C12_ClusterMinimumDocs ==
    ret.op = "POST /clusters" =>
        /\ Len(ledger) < 2 => (ret.status = "400" /\ ret.out = <<>>)
        /\ Len(ledger) = 2 =>
              (ret.status = "ok" /\ ret.out # <<>> /\ ret.out[1].num_clusters \in {1, 2})
\* ------------------------------------- handlers while a store call may fail
\* the server with room for one document more, and with the external failures of the
\* store (Chroma raising, session.commit() raising) striking its write handlers
\* POST /documents
AddDocumentFault ==
    /\ HasRoom(1, ServerMaxDocs + 1)
    /\ \E title \in AddTitles, content \in ServerTexts, fault \in Faults :
        /\ MayFail(fault)
        /\ LET r == StoreAddDocument(Store, title, content, now, fault)
           IN  IF r.status = "ok"
               THEN Finish(r.st, InvalidatedClusterCache,
                           Response("POST /documents", "ok", TRUE, TRUE, "not_called"),
                           FALSE, FALSE)
               ELSE Finish(r.st, cluster_cache,
                           Response("POST /documents", "error", FALSE, FALSE, "not_called"),
                           TRUE, FALSE)

\* POST /upload-pdf
UploadPdfFault ==
    /\ HasRoom(1, ServerMaxDocs + 1)
    /\ \E title \in AddTitles, text \in PdfTexts, fault \in Faults :
        /\ MayFail(fault)
        /\ LET r == StorePdf(Store, title, text, now, fault, "none")
           IN  Finish(r.st, cluster_cache,
                      Response("POST /upload-pdf", IF r.status = "ok" THEN "ok" ELSE "error",
                               r.st.ledger # ledger, FALSE, "not_called"),
                      r.status = "raised", FALSE)

\* DELETE /documents/{doc_id}
DeleteDocumentFault ==
    \E doc_id \in KnownIds, fault \in Faults :
        /\ MayFail(fault)
        /\ LET r == StoreDeleteDocument(Store, doc_id, fault)
           IN  IF r.status = "ok"
               THEN Finish(r.st, InvalidatedClusterCache,
                           Response("DELETE /documents/{doc_id}", "ok", TRUE, TRUE,
                                    "not_called"),
                           FALSE, FALSE)
               ELSE Finish(r.st, cluster_cache,
                           Response("DELETE /documents/{doc_id}",
                                    IF r.status = "false" THEN "not_found" ELSE "error",
                                    FALSE, FALSE, "not_called"),
                           r.status = "raised", FALSE)

FaultNext ==
    \/ AddDocumentFault
    \/ UploadPdfFault
    \/ DeleteDocumentFault
    \/ GetDocumentClusters

SpecServerFaults == ServerInit /\ [][FaultNext]_vars

RECURSIVE SumOfSizes(_)
SumOfSizes(clusters) ==
    IF clusters = <<>> THEN 0 ELSE Head(clusters).size + SumOfSizes(Tail(clusters))

\* C13: in every ClusterResponse the document lists of the clusters partition the
\* ledger's current documents (each document in exactly one cluster, none that the
\* ledger lacks), and the cluster sizes add up to total_documents.
C13_ClustersPartitionLedger ==
    (ret.op = "POST /clusters" /\ ret.status = "ok") =>
        LET response == ret.out[1]
            holders(id) == {i \in DOMAIN response.clusters :
                               id \in SeqRange(response.clusters[i].documents)}
        IN  /\ \A id \in LedgerIds(Store) : Cardinality(holders(id)) = 1
            /\ \A i \in DOMAIN response.clusters :
                   /\ SeqRange(response.clusters[i].documents) \subseteq LedgerIds(Store)
                   /\ response.clusters[i].size = Len(response.clusters[i].documents)
            /\ SumOfSizes(response.clusters) = response.total_documents
\* ------------------------------------- the store across several processes
\* DocumentStoreV2Optimized(load_model=...) constructed by a new process (each command
\* of cli_v2.py makes one) over the persistent SQLite file and Chroma directory
Reopen ==
    /\ model' \in BOOLEAN
    /\ ret' = Returned("__init__", "ok", NONE, <<>>)
    /\ UNCHANGED <<ledger, collection, cluster_cache, now, ticks, databases, raised, stale,
                   clustered, inflight>>

ProcessNext ==
    \/ Next
    \/ Reopen

SpecProcesses == Init /\ [][ProcessNext]_vars

\* C14: after update_document(id, content=c) returns True, the vector stored for id
\* is the embedding of c, whether or not the model had been loaded before the call.
C14_UpdateReembeds ==
    [][(ret'.op = "update_document" /\ ret'.status = "ok")
       => \A i \in DOMAIN ledger' :
              ledger'[i].content # ledger[i].content
              => \A j \in DOMAIN collection' :
                     collection'[j].id = ledger'[i].id
                     => collection'[j].embedding = Encode(ledger'[i].content)]_vars
\* C15: over add_document and delete_document calls, several of them within one clock
\* second included, the id add_document generates differs from the id of every
\* document stored at the time of the call (checked here for the stored documents;
\* ids of deleted documents are not remembered by the stores), in runs where no
\* store call has raised before.
C15_GeneratedIdIsFresh ==
    [][(ret'.op = "add_document" /\ ~raised)
       => NewDocId(Store, now') \notin (LedgerIds(Store) \cup CollectionIds(Store))]_vars
\* ------------------------------------------- handlers in the thread pool
\* FastAPI runs the `def` handlers in a thread pool; nothing in server.py or in the
\* store takes a lock. A request advances by one store access at a time.

\* add_document up to doc_id = f"doc_{self.collection.count() + 1}_{...}" and
\* session.add(document), which no other session sees before the commit
BeginAdd(t) ==
    /\ inflight[t] = Idle
    /\ HasRoom(1, ServerMaxDocs)
    /\ \E title \in AddTitles, content \in ServerTexts :
        inflight' = [inflight EXCEPT ![t] =
                        [op |-> "add_document", pc |-> "collection.add",
                         doc_id |-> NewDocId(Store, now),
                         title |-> title, content |-> content]]
    /\ UNCHANGED <<ledger, collection, model, cluster_cache, now, ticks, databases, ret,
                   raised, stale, clustered>>

\* self.collection.add(ids=[doc_id], ...)
AddToCollection(t) ==
    /\ inflight[t].op = "add_document" /\ inflight[t].pc = "collection.add"
    /\ collection' = CollectionAdd(collection, inflight[t].doc_id,
                                   Encode(inflight[t].content))
    /\ model' = TRUE
    /\ inflight' = [inflight EXCEPT ![t].pc = "commit"]
    /\ UNCHANGED <<ledger, cluster_cache, now, ticks, databases, ret, raised, stale, clustered>>

\* session.commit() of add_document (a primary key already present raises), then the
\* rest of the POST /documents handler
CommitAdd(t) ==
    /\ inflight[t].op = "add_document" /\ inflight[t].pc = "commit"
    /\ LET a == inflight[t]
           ok == a.doc_id \notin LedgerIds(Store)
           document == [id |-> a.doc_id, title |-> a.title, content |-> a.content,
                        created_at |-> now]
       IN  Outcome([Store EXCEPT !.ledger = IF ok THEN Append(ledger, document) ELSE ledger],
                   IF ok THEN InvalidatedClusterCache ELSE cluster_cache,
                   Response("POST /documents", IF ok THEN "ok" ELSE "error", ok, ok,
                            "not_called"),
                   ~ok, FALSE)
    /\ inflight' = [inflight EXCEPT ![t] = Idle]
    /\ UNCHANGED <<now, ticks, databases>>

\* delete_document up to session.delete(document); an id the ledger lacks ends the
\* request with 404
BeginDelete(t) ==
    /\ inflight[t] = Idle
    /\ \E doc_id \in KnownIds :
        /\ \A u \in Threads : inflight[u].op = "delete_document" => inflight[u].doc_id # doc_id
        /\ IF doc_id \in LedgerIds(Store)
           THEN /\ inflight' = [inflight EXCEPT ![t] =
                                  [op |-> "delete_document", pc |-> "collection.delete",
                                   doc_id |-> doc_id]]
                /\ UNCHANGED <<ledger, collection, model, cluster_cache, ret, raised, stale, clustered>>
           ELSE /\ Outcome(Store, cluster_cache,
                           Response("DELETE /documents/{doc_id}", "not_found", FALSE, FALSE,
                                    "not_called"),
                           FALSE, FALSE)
                /\ UNCHANGED inflight
    /\ UNCHANGED <<now, ticks, databases>>

\* self.collection.delete(ids=[doc_id])
DeleteFromCollection(t) ==
    /\ inflight[t].op = "delete_document" /\ inflight[t].pc = "collection.delete"
    /\ collection' = CollectionDelete(collection, inflight[t].doc_id)
    /\ inflight' = [inflight EXCEPT ![t].pc = "commit"]
    /\ UNCHANGED <<ledger, model, cluster_cache, now, ticks, databases, ret, raised, stale, clustered>>

\* session.commit() of delete_document, then the rest of the DELETE handler
CommitDelete(t) ==
    /\ inflight[t].op = "delete_document" /\ inflight[t].pc = "commit"
    /\ Outcome([Store EXCEPT !.ledger = SelectSeqBy(ledger, {inflight[t].doc_id})],
               InvalidatedClusterCache,
               Response("DELETE /documents/{doc_id}", "ok", TRUE, TRUE, "not_called"),
               FALSE, FALSE)
    /\ inflight' = [inflight EXCEPT ![t] = Idle]
    /\ UNCHANGED <<now, ticks, databases>>

\* compute_clusters up to documents = document_store.get_all_documents(); fewer than
\* two documents end the request with 400
BeginClusters(t) ==
    /\ inflight[t] = Idle
    /\ IF Len(ledger) < 2
       THEN /\ Outcome(Store, cluster_cache,
                       Response("POST /clusters", "400", FALSE, FALSE, "not_called")
                         @@ [request |-> DefaultClusterRequest, out |-> <<>>],
                       FALSE, FALSE)
            /\ UNCHANGED inflight
       ELSE /\ inflight' = [inflight EXCEPT ![t] =
                              [op |-> "compute_clusters", pc |-> "collection.get",
                               documents |-> ledger]]
            /\ UNCHANGED <<ledger, collection, model, cluster_cache, ret, raised, stale, clustered>>
    /\ UNCHANGED <<now, ticks, databases>>

\* all_data = collection.get(...) and the rest of compute_clusters, on the documents
\* read before and the vectors read now; ret records the two id sets it worked on
FinishClusters(t) ==
    /\ inflight[t].op = "compute_clusters" /\ inflight[t].pc = "collection.get"
    /\ \E entropy \in Entropies :
        LET snapshot == [ledger |-> inflight[t].documents, collection |-> collection,
                         model |-> model]
            r == ComputeClusters(snapshot, DefaultClusterRequest, entropy)
        IN  Outcome(Store, cluster_cache,
                    Response("POST /clusters", IF r.status = "ok" THEN "ok" ELSE "400",
                             FALSE, FALSE, "not_called")
                      @@ [request |-> DefaultClusterRequest, out |-> r.response,
                          ledger_ids |-> LedgerIds(snapshot),
                          collection_ids |-> CollectionIds(snapshot)],
                    FALSE, FALSE)
    /\ inflight' = [inflight EXCEPT ![t] = Idle]
    /\ UNCHANGED <<now, ticks, databases>>

ThreadNext ==
    \E t \in Threads :
        \/ BeginAdd(t)
        \/ AddToCollection(t)
        \/ CommitAdd(t)
        \/ BeginDelete(t)
        \/ DeleteFromCollection(t)
        \/ CommitDelete(t)
        \/ BeginClusters(t)
        \/ FinishClusters(t)

SpecThreads == ServerInit /\ [][ThreadNext]_vars

\* C16: a compute_clusters that runs while add_document or delete_document requests
\* are served by other threads works on one snapshot: the ids it read from the ledger
\* are the ids it read from the vector index.
C16_ClusteringReadsOneSnapshot ==
    (ret.op = "POST /clusters" /\ "collection_ids" \in DOMAIN ret)
        => ret.ledger_ids = ret.collection_ids

\* C17: two add_document requests served at the same time are serialized: they never
\* hold the same generated id, so both documents can end up in both stores.
C17_ConcurrentAddsDistinctIds ==
    \A t \in Threads, u \in Threads :
        (t # u /\ inflight[t].op = "add_document" /\ inflight[u].op = "add_document")
            => inflight[t].doc_id # inflight[u].doc_id
\* C18: no read handler turns an internal failure into a success: when the cluster
\* computation inside get_cached_clusters raised, the caller receives an error, not a
\* successful answer built on None.
C18_ReadFailuresSurface ==
    (ret.op \in CachedReaders /\ ret.from = "failed") => ret.status # "ok"
\* --------------------------------------------------- naming one cluster
\* tags strings of documents, as their comma-separated pieces
TagStrings == {<<>>, <<"ai">>, <<"ai", " AI">>, <<"ml">>, <<"ai", "ml">>, <<" ">>}

\* generate_cluster_name_v5(documents, document_store, representative_id) called on a
\* cluster of up to ServerMaxDocs documents; the representative may be none of them.
\* The function keeps no state, so one call per behaviour covers it.
CallGenerateClusterNameV5 ==
    /\ ret.op = "__init__"
    /\ \E n \in 0..ServerMaxDocs :
         \E titles \in [1..n -> AddTitles \cup Titles], tags \in [1..n -> TagStrings],
            representative \in 0..n :
             LET documents == [i \in 1..n |->
                                  [id |-> <<i, 0>>, title |-> titles[i], tags |-> tags[i]]]
                 representative_id ==
                     IF representative = 0 THEN AbsentId ELSE <<representative, 0>>
             IN  ret' = [op |-> "generate_cluster_name_v5", status |-> "ok",
                         documents |-> documents,
                         representative_id |-> representative_id,
                         out |-> GenerateClusterNameV5(documents, representative_id)]
    /\ UNCHANGED <<ledger, collection, model, cluster_cache, now, ticks, databases, raised,
                   stale, clustered, inflight>>

NamingNext == CallGenerateClusterNameV5

SpecNaming == ServerInit /\ [][NamingNext]_vars

\* C19: generate_cluster_name_v5 returns the tag-consensus name exactly when some tag
\* (trimmed, lower-cased) is carried by at least half of the cluster's m documents, and
\* the name is then made of such tags, title-cased (up to 3 of them); otherwise it is
\* the representative's title, or 'Unnamed Cluster' when the representative is not
\* among the documents.
C19_TagConsensusName ==
    ret.op = "generate_cluster_name_v5" =>
        LET documents == ret.documents
            m == Len(documents)
            carriers(tag) == {i \in DOMAIN documents :
                                 tag \in SeqRange(CleanTags(DocTags(documents[i])))}
            consensus == {tag \in SeqRange(AllTags(documents)) :
                             2 * Cardinality(carriers(tag)) >= m}
        IN  IF consensus # {}
            THEN /\ Len(ret.out) = Min(3, Cardinality(consensus))
                 /\ SeqRange(ret.out) \subseteq {TitleCase(tag) : tag \in consensus}
            ELSE ret.out = GenerateClusterNameV4(documents, ret.representative_id)
\* ------------------------------------------- the handlers around clustering
\* the handlers that decide what compute_clusters reads (ids, vectors, titles), and
\* POST /clusters itself
ClusteringNext ==
    \/ AddDocument
    \/ UploadPdf
    \/ RenameDocument
    \/ DeleteDocument
    \/ GetDocumentClusters

SpecClustering == ServerInit /\ [][ClusteringNext]_vars

\* C20: a compute_clusters call that follows another with the same request, with no
\* write to either store in between, returns what the first returned: the same
\* num_clusters, the same documents in every cluster, the same
\* representative_document_id and the same cluster_name, whatever the state of the
\* process-wide random generator.
C20_ClusteringRepeats ==
    ret.op = "POST /clusters" =>
        \A entropy \in Entropies :
            LET again == ComputeClusters(Store, ret.request, entropy)
            IN  /\ (again.status = "ok") = (ret.status = "ok")
                /\ again.response = ret.out

\* three documents, two of them with the same vector, were clustered into two clusters
C20_Witness ==
    /\ ret.op = "POST /clusters" /\ ret.status = "ok"
    /\ Len(ledger) = 3
    /\ ret.out[1].num_clusters = 2
    /\ ret.out[1].clusters[1].size = 2
\* ---------------------------------------------- order among equal created_at
\* the ledger row at position i comes before the one at position j in the total order
\* by created_at, then by insertion sequence (the rowid order of the table)
ComesBefore(i, j) ==
    \/ ledger[i].created_at < ledger[j].created_at
    \/ (ledger[i].created_at = ledger[j].created_at /\ i < j)

\* the 1-based place of the document doc_id in that total order, 0 when the ledger
\* does not hold it
PlaceOf(doc_id) ==
    LET at == {j \in DOMAIN ledger : ledger[j].id = doc_id}
    IN  IF at = {} THEN 0
        ELSE LET j == CHOOSE j \in at : TRUE
             IN  Cardinality({i \in DOMAIN ledger : ComesBefore(i, j)}) + 1

C22_EmptyLedgerSearchLoadsNothing ==
    [][(ret'.op = "search" /\ ret'.arg >= 1 /\ Len(ledger) = 0 /\ ~model)
       => (ret'.status = "ok" /\ ret'.out = <<>> /\ ~model')]_vars
\* ------------------------------------------- the cluster count of a request
\* ClusterRequest bodies: a requested count from 0 up, or a [min_clusters,
\* max_clusters] range to search (pydantic checks neither)
WideClusterRequests ==
    {[DefaultClusterRequest EXCEPT !.num_clusters = <<v>>] : v \in 0..(ServerMaxDocs + 1)}
    \cup {[num_clusters |-> <<>>, min_clusters |-> lo, max_clusters |-> hi] :
            lo \in 1..ServerMaxDocs, hi \in {1, 2, ServerMaxDocs, 10}}

\* POST /clusters with any request body; ret also records num_clusters as the final
\* KMeans was given it (0 when compute_clusters raised before reaching it)
GetDocumentClustersAnyRequest ==
    \E request \in WideClusterRequests, entropy \in Entropies :
        LET r == ComputeClusters(Store, request, entropy)
            reached == Len(ledger) >= 2 /\ Len(collection) >= 2
                       /\ (request.num_clusters = <<>> =>
                             \A k \in CandidateKs(request, Len(collection)) :
                                 ClusteringRuns(k, collection))
        IN  Finish(Store, cluster_cache,
                   Response("POST /clusters", IF r.status = "ok" THEN "ok" ELSE "400",
                            FALSE, FALSE, "not_called")
                     @@ [request |-> request, out |-> r.response,
                         reached |-> reached,
                         n_clusters |-> IF reached THEN NumClusters(request, collection)
                                        ELSE 0],
                   FALSE, FALSE)

ClusterCountNext ==
    \/ AddDocument
    \/ UploadPdf
    \/ DeleteDocument
    \/ GetDocumentClustersAnyRequest

SpecClusterCount == ServerInit /\ [][ClusterCountNext]_vars

\* C23: when the request gives num_clusters, the cluster count compute_clusters uses
\* is that value clamped to [1, total_documents - 1]: below 1 it becomes 1, from
\* total_documents on it becomes total_documents - 1.
C23_RequestedCountClamped ==
    (ret.op = "POST /clusters" /\ ret.request.num_clusters # <<>> /\ ret.reached) =>
        LET v == ret.request.num_clusters[1]
            total_documents == Len(ledger)
        IN  ret.n_clusters = IF v < 1 THEN 1
                             ELSE IF v >= total_documents THEN total_documents - 1
                             ELSE v

\* C24: when the request gives no num_clusters, min_clusters <= max_clusters and
\* n >= 2 documents are stored, the num_clusters of the response lies in
\* [min_clusters, max_clusters] and is less than n.
C24_ChosenCountInRange ==
    (/\ ret.op = "POST /clusters" /\ ret.status = "ok"
     /\ ret.request.num_clusters = <<>>
     /\ ret.request.min_clusters <= ret.request.max_clusters) =>
        /\ ret.request.min_clusters <= ret.out[1].num_clusters
        /\ ret.out[1].num_clusters <= ret.request.max_clusters
        /\ ret.out[1].num_clusters < Len(ledger)
\* the sum of the vectors at the positions `members` of the collection
RECURSIVE SumOfEmbeddings(_)
SumOfEmbeddings(members) ==
    IF members = {} THEN 0
    ELSE LET j == CHOOSE j \in members : TRUE
         IN  collection[j].embedding + SumOfEmbeddings(members \ {j})

\* C25: in every ClusterResponse the representative_document_id of a cluster is in
\* that cluster's documents list, and among the cluster's members its vector is
\* nearest to the cluster's centre, the first such member in the vector index's order.
C25_RepresentativeIsNearestMember ==
    (ret.op = "POST /clusters" /\ ret.status = "ok") =>
        \A c \in DOMAIN ret.out[1].clusters :
            LET cluster == ret.out[1].clusters[c]
                members == {j \in DOMAIN collection :
                               collection[j].id \in SeqRange(cluster.documents)}
                m == Cardinality(members)
                dist(j) == Distance(m * collection[j].embedding, SumOfEmbeddings(members))
            IN  /\ cluster.representative_document_id \in SeqRange(cluster.documents)
                /\ \A r \in members :
                       collection[r].id = cluster.representative_document_id
                       => \A j \in members :
                              dist(r) < dist(j) \/ (dist(r) = dist(j) /\ r <= j)

\* --------------------------------------------------------- several databases
\* DatabaseManager.switch_database, for an id the registry holds
SwitchDatabase(D, database_id) == [D EXCEPT !.current_database_id = database_id]

\* config.set_database_paths
SetDatabasePaths(D, database_id) == [D EXCEPT !.config_paths = database_id]

\* DocumentStoreV2Optimized.__init__ given a database_id: the manager is switched to
\* it, then config's paths are set to the manager's current database
DocumentStoreV2(D, database_id) ==
    LET switched == SwitchDatabase(D, database_id)
    IN  SetDatabasePaths(switched, switched.current_database_id)

\* the SQLite file and the Chroma directory a store bound to database_id works on
Contents(D, S, database_id) ==
    IF database_id = D.document_store
    THEN [ledger |-> S.ledger, collection |-> S.collection]
    ELSE D.storage[database_id]

\* the global document_store after a store bound to database_id left `contents`
GlobalStoreAfter(D, S, database_id, contents) ==
    IF database_id = D.document_store
    THEN [S EXCEPT !.ledger = contents.ledger, !.collection = contents.collection]
    ELSE S

\* the other databases after a store bound to database_id left `contents`
StorageAfter(D, database_id, contents) ==
    IF database_id = D.document_store THEN D
    ELSE [D EXCEPT !.storage[database_id] = contents]

\* POST /documents/{doc_id}/move, for a target the registry holds. fault strikes
\* target_store.add_document, fault2 strikes document_store.delete_document.
MoveDocument ==
    \E doc_id \in KnownIds, target_database_id \in DatabaseIds,
       fault \in Faults, fault2 \in Faults :
        /\ MayFail(fault) /\ MayFail(fault2)
        /\ fault = "none" \/ fault2 = "none"
        /\ Len(Contents(databases, Store, target_database_id).ledger) < ServerMaxDocs
        /\ Len(Contents(databases, Store, target_database_id).collection) < ServerMaxDocs
        /\ LET op == "POST /documents/{doc_id}/move"
               documents == SelectSeq(ledger, LAMBDA d : d.id = doc_id)
               source_doc == documents[1]
               original_db_id == databases.current_database_id
               D1 == DocumentStoreV2(SetDatabasePaths(databases, target_database_id),
                                     target_database_id)
               target_store == Contents(databases, Store, target_database_id)
                                 @@ [model |-> TRUE]
               a == StoreAddDocument(target_store, source_doc.title, source_doc.content,
                                     now, fault)
               added == [ledger |-> a.st.ledger, collection |-> a.st.collection]
               S1 == GlobalStoreAfter(D1, Store, target_database_id, added)
               D2 == StorageAfter(D1, target_database_id, added)
               D3 == SetDatabasePaths(D2, original_db_id)
               r == StoreDeleteDocument(S1, doc_id, fault2)
               new_docs == Contents(D3, r.st, target_database_id).ledger
               Moved(status, invalidated) ==
                   Response(op, status, status = "ok", invalidated, "not_called")
                     @@ [doc_id |-> doc_id, target_database_id |-> target_database_id]
           IN  /\ IF documents = <<>>
                  THEN /\ Outcome(Store, cluster_cache, Moved("not_found", FALSE),
                                  FALSE, FALSE)
                       /\ databases' = databases
                  ELSE IF databases.current_database_id = target_database_id
                  THEN /\ Outcome(Store, cluster_cache, Moved("400", FALSE), FALSE, FALSE)
                       /\ databases' = databases
                  ELSE IF a.status = "raised"
                  THEN /\ Outcome(S1, cluster_cache, Moved("error", FALSE), TRUE, FALSE)
                       /\ databases' = D2
                  ELSE IF r.status = "raised"
                  THEN /\ Outcome(r.st, cluster_cache, Moved("error", FALSE), TRUE, FALSE)
                       /\ databases' = D3
                  ELSE IF r.status = "false"
                  THEN /\ Outcome(r.st, cluster_cache, Moved("error", FALSE), FALSE, FALSE)
                       /\ databases' = D3
                  ELSE /\ Outcome(r.st, InvalidatedClusterCache,
                                  Moved(IF \E i \in DOMAIN new_docs : new_docs[i].id = a.id
                                        THEN "ok" ELSE "error", TRUE),
                                  FALSE, FALSE)
                       /\ databases' = D3
               /\ UNCHANGED <<now, ticks, inflight>>

\* POST /databases/{database_id}/activate, for an id the registry holds
ActivateDatabase ==
    \E database_id \in DatabaseIds :
        LET opened == Contents(databases, Store, database_id)
            D1 == DocumentStoreV2(SwitchDatabase(databases, database_id), database_id)
        IN  /\ Outcome([ledger |-> opened.ledger, collection |-> opened.collection,
                        model |-> TRUE],
                       cluster_cache,
                       Response("POST /databases/{database_id}/activate", "ok",
                                FALSE, FALSE, "not_called"),
                       FALSE, FALSE)
            /\ databases' =
                 [D1 EXCEPT !.document_store = database_id,
                            !.storage = [d \in DatabaseIds \ {database_id} |->
                                            Contents(databases, Store, d)]]
            /\ UNCHANGED <<now, ticks, inflight>>

DatabasesNext ==
    \/ AddDocument
    \/ DeleteDocument
    \/ MoveDocument
    \/ ActivateDatabase

\* the server with two databases in its registry, documents moving between them
SpecDatabases == ServerInit /\ [][DatabasesNext]_vars

DatabaseClustersNext ==
    \/ AddDocument
    \/ UploadPdf
    \/ ListDocuments
    \/ ActivateDatabase

\* the server with two databases in its registry, the clusters read in each
SpecDatabaseClusters == ServerInit /\ [][DatabaseClustersNext]_vars

\* C26: move_document leaves the global state as it was: when it returns, with success
\* or with an error, the manager's current_database_id and config's paths are those
\* of before the call, and both name the database the global document_store is bound
\* to.
C26_MoveKeepsGlobalState ==
    [][ret'.op = "POST /documents/{doc_id}/move" =>
         /\ databases'.current_database_id = databases.current_database_id
         /\ databases'.config_paths = databases.config_paths
         /\ databases'.current_database_id = databases'.document_store
         /\ databases'.config_paths = databases'.document_store]_vars

\* C28: get_cached_clusters never returns clusters that were computed from another
\* database than the one the server is now switched to, the two holding the same
\* number of documents or not.
C28_NoClustersOfAnotherDatabase ==
    (ret.op \in CachedReaders /\ ret.status = "ok" /\ ret.from = "cache")
        => clustered = databases.document_store

\* C30: when move_document returns after it found the document and took its target
\* for another database, exactly one database holds the moved content: the target
\* (in a new row) and no longer the source when it succeeded, the source and not the
\* target when it failed.
C30_MovedDocumentInOneDatabase ==
    [][(/\ ret'.op = "POST /documents/{doc_id}/move"
        /\ ret'.status \in {"ok", "error"}
        /\ ret'.target_database_id # databases.document_store) =>
         LET target == ret'.target_database_id
             before == Contents(databases, Store, target).ledger
             after == Contents(databases', Store', target).ledger
             source_doc == SelectSeq(ledger, LAMBDA d : d.id = ret'.doc_id)[1]
             in_target == \E i \in DOMAIN after :
                             /\ after[i].content = source_doc.content
                             /\ \A j \in DOMAIN before : before[j].id # after[i].id
             in_source == \E i \in DOMAIN ledger' : ledger'[i].id = ret'.doc_id
         IN  IF ret'.status = "ok" THEN in_target /\ ~in_source
             ELSE in_source /\ ~in_target]_vars

\* ------------------------------------------------------------------ routing
\* the DELETE routes on /documents, in the order server.py declares them
DeleteRoutes ==
    <<[path |-> <<"documents", "{doc_id}">>, endpoint |-> "delete_document"],
      [path |-> <<"documents", "clear-all">>, endpoint |-> "clear_all_documents"]>>

\* a "{name}" segment of a route path matches any one segment of the URL, every other
\* segment matches itself
RouteMatches(route_path, path) ==
    /\ Len(route_path) = Len(path)
    /\ \A i \in DOMAIN path : route_path[i] = "{doc_id}" \/ route_path[i] = path[i]

\* the app's router: the endpoint of the first declared route that matches
Dispatch(routes, path) ==
    LET matching == {i \in DOMAIN routes : RouteMatches(routes[i].path, path)}
    IN  IF matching = {} THEN NONE
        ELSE routes[CHOOSE i \in matching : \A j \in matching : i <= j].endpoint

\* the URL segment that names a document
Segment(doc_id) == ToString(doc_id)

\* doc_id: str as delete_document receives it: the segment as it stands, which is the
\* id of a stored document or of none
PathParam(segment) ==
    IF \E id \in KnownIds : Segment(id) = segment
    THEN CHOOSE id \in KnownIds : Segment(id) = segment
    ELSE AbsentId

\* DELETE /documents/<segment>: the router picks the endpoint, the endpoint runs
DeleteRequest ==
    \E segment \in {Segment(id) : id \in KnownIds} \cup {"clear-all"},
       fault \in ServerFaults :
        LET path == <<"documents", segment>>
            endpoint == Dispatch(DeleteRoutes, path)
            d == StoreDeleteDocument(Store, PathParam(segment), fault)
            c == StoreClearAll(Store, fault)
            Routed(op, status, wrote) ==
                Response(op, status, wrote, wrote, "not_called")
                  @@ [path |-> path, endpoint |-> endpoint]
        IN  IF endpoint = "delete_document"
            THEN IF d.status = "ok"
                 THEN Finish(d.st, InvalidatedClusterCache,
                             Routed("DELETE /documents/{doc_id}", "ok", TRUE), FALSE, FALSE)
                 ELSE Finish(d.st, cluster_cache,
                             Routed("DELETE /documents/{doc_id}",
                                    IF d.status = "false" THEN "not_found" ELSE "error",
                                    FALSE),
                             d.status = "raised", FALSE)
            ELSE IF c.status = "ok"
                 THEN Finish(c.st, InvalidatedClusterCache,
                             Routed("DELETE /documents/clear-all", "ok", TRUE), FALSE, FALSE)
                 ELSE Finish(c.st, cluster_cache,
                             Routed("DELETE /documents/clear-all", "error", FALSE),
                             TRUE, FALSE)

RoutesNext ==
    \/ AddDocument
    \/ UploadPdf
    \/ ListDocuments
    \/ DeleteRequest

\* the server answering requests through its router
SpecRoutes == ServerInit /\ [][RoutesNext]_vars

\* C27: a DELETE request to /documents/clear-all is handled by clear_all_documents,
\* and after it returned successfully the ledger and the vector index of the active
\* store are empty and the cluster cache is invalid.
C27_ClearAllRouted ==
    ("path" \in DOMAIN ret /\ ret.path = <<"documents", "clear-all">>) =>
        /\ ret.endpoint = "clear_all_documents"
        /\ ret.status = "ok" =>
              /\ ledger = <<>>
              /\ collection = <<>>
              /\ cluster_cache = InvalidatedClusterCache

\* the ordinal index of a document among `rows`, as search and get_document_by_index
\* count it
IndexAmong(rows, doc_id) == DocIdToIndex(OrderByCreatedAt(rows), doc_id)

\* C29: a successful add gives the new document the index count + 1 and leaves the
\* index of every existing document as it was; a successful delete lowers by one the
\* index of every document created after the deleted one and leaves the index of
\* every document created before it as it was.
C29_IndicesFollowCreationOrder ==
    [][/\ (ret'.op = "add_document" /\ ret'.status = "ok") =>
            /\ \A i \in DOMAIN ledger :
                  IndexAmong(ledger', ledger[i].id) = IndexAmong(ledger, ledger[i].id)
            /\ \E j \in DOMAIN ledger' :
                  /\ \A i \in DOMAIN ledger : ledger[i].id # ledger'[j].id
                  /\ IndexAmong(ledger', ledger'[j].id) = Len(ledger) + 1
       /\ (ret'.op = "delete_document" /\ ret'.status = "ok") =>
            \E g \in DOMAIN ledger :
                LET gone == IndexAmong(ledger, ledger[g].id)
                IN  /\ IndexAmong(ledger', ledger[g].id) = 0
                    /\ \A i \in DOMAIN ledger \ {g} :
                          LET was == IndexAmong(ledger, ledger[i].id)
                          IN  IndexAmong(ledger', ledger[i].id) =
                                  IF was > gone THEN was - 1 ELSE was]_vars

\* the first of two documents was deleted: the second, created after it, now has
\* index 1
C29_Witness ==
    /\ ret.op = "delete_document" /\ ret.status = "ok"
    /\ Len(ledger) = 1
    /\ ledger[1].id[1] = 2
    /\ IndexAmong(ledger, ledger[1].id) = 1

====
